---- MODULE Spec2Model ----
(***************************************************************************)
(* Site connectivity checker: the command-line entry point (main), the     *)
(* collection of the URL list from the arguments and the input file, and   *)
(* the two batch runners, _synchronous_check and _asynchronous_check, with *)
(* the display sink display_check_result.                                  *)
(*                                                                         *)
(* A string is a sequence of characters, so that str.strip() and the       *)
(* iteration of a text file line by line are computed, not assumed.        *)
(***************************************************************************)
EXTENDS Integers, Sequences, FiniteSets, Bags, TLC

\* Bounds of the model.
MaxInput == 3       \* URLs after -u plus characters of the input file

\* ------------------------------------------------------------------------
\* Strings
\* ------------------------------------------------------------------------
NL == "nl"
Chars == {"a", " ", NL}
Whitespace == {" ", NL}

RECURSIVE SeqsUpTo(_, _)
SeqsUpTo(S, n) ==
    IF n = 0 THEN {<<>>}
    ELSE LET shorter == SeqsUpTo(S, n - 1)
         IN  shorter \cup {Append(s, x) : s \in {t \in shorter : Len(t) = n - 1}, x \in S}

\* The URLs that may follow -u on the command line.
DirectURLs == {<<"a">>}

RECURSIVE LStrip(_)
LStrip(s) ==
    IF s = <<>> THEN <<>>
    ELSE IF Head(s) \in Whitespace THEN LStrip(Tail(s)) ELSE s

RECURSIVE RStrip(_)
RStrip(s) ==
    IF s = <<>> THEN <<>>
    ELSE IF s[Len(s)] \in Whitespace THEN RStrip(SubSeq(s, 1, Len(s) - 1)) ELSE s

\* str.strip()
Strip(s) == RStrip(LStrip(s))

\* Index of the first newline of s, 0 when there is none.
FirstNL(s) ==
    IF \E k \in 1..Len(s) : s[k] = NL
    THEN CHOOSE k \in 1..Len(s) : s[k] = NL /\ \A j \in 1..(k - 1) : s[j] # NL
    ELSE 0

\* Iterating an open text file: the lines, each with its newline kept.
RECURSIVE FileLines(_)
FileLines(content) ==
    IF content = <<>> THEN <<>>
    ELSE LET k == FirstNL(content)
         IN  IF k = 0 THEN <<content>>
             ELSE <<SubSeq(content, 1, k)>> \o FileLines(SubSeq(content, k + 1, Len(content)))

\* ------------------------------------------------------------------------
\* The environment: command line, file system, probe
\* ------------------------------------------------------------------------
Missing == [exists |-> FALSE, content |-> <<>>]
NoInputFile == <<>>
InputFileName == <<"a">>

\* The Namespace returned by read_user_cli_args.
UserArgs ==
    [urls : SeqsUpTo(DirectURLs, MaxInput),
     input_file : {NoInputFile, InputFileName},
     asynchronous : BOOLEAN]

\* What is found at the path of the input file.
FileStates == {Missing} \cup [exists : {TRUE}, content : SeqsUpTo(Chars, MaxInput)]

\* What one call of site_is_online / site_is_online_async can do: return a
\* value that is true or false, or raise an exception whose str() is msg.
ProbeOutcomes ==
    [kind : {"return"}, cls : {"bool"}, val : BOOLEAN, msg : {""}]
    \cup [kind : {"raise"}, cls : {"Exception"}, val : {FALSE}, msg : {"", "timed out"}]

\* The classes the clause `except Exception` catches.
CaughtClasses == {"Exception"}

VARIABLES
    user_args,      \* the parsed command line
    file,           \* the file system at user_args.input_file
    pc,             \* where main is: start, sync, async, done, exited, crashed
    urls,           \* the list the batch runner was called with
    idx,            \* _synchronous_check: position of the for loop
    probe,          \* per position: idle, pending, completed (displaying: see AsyncResume)
    probed,         \* per position: what the probe did (history)
    displayed,      \* the calls of display_check_result, in order
    stdout,         \* the calls of print to standard output, in order
    completion,     \* the positions in the order their probes came back (history)
    stderr,         \* the messages written to standard error
    exit_status     \* the status the process ended with, -1 while running

vars == <<user_args, file, pc, urls, idx, probe, probed, displayed, stdout, completion,
          stderr, exit_status>>

NotYet == [kind |-> "none", cls |-> "", val |-> FALSE, msg |-> ""]

\* ------------------------------------------------------------------------
\* Collecting the URLs
\* ------------------------------------------------------------------------
ErrEmptyFile == "Error: empty input file"
ErrNotFound == "Error: input file not found"
ErrNoUrls == "Error: no URLs to check"

\* _read_urls_from_file: the list returned and what it prints to stderr.
ReadUrlsFromFile(f) ==
    IF f.exists
    THEN LET lines == FileLines(f.content)
             stripped == [i \in 1..Len(lines) |-> Strip(lines[i])]
         IN  IF stripped # <<>>
             THEN [urls |-> stripped, err |-> <<>>]
             ELSE [urls |-> <<>>, err |-> <<ErrEmptyFile>>]
    ELSE [urls |-> <<>>, err |-> <<ErrNotFound>>]

\* _get_websites_urls putting the lines of the file first.
GetWebsitesUrlsFileFirst(a, f) ==
    IF a.input_file # NoInputFile
    THEN LET r == ReadUrlsFromFile(f)
         IN  [urls |-> r.urls \o a.urls, err |-> r.err]
    ELSE [urls |-> a.urls, err |-> <<>>]

\* _get_websites_urls: the list returned and what was printed to stderr.
GetWebsitesUrls(a, f) ==
    IF a.input_file # NoInputFile
    THEN LET r == ReadUrlsFromFile(f)
         IN  [urls |-> a.urls \o r.urls, err |-> r.err]
    ELSE [urls |-> a.urls, err |-> <<>>]

Init ==
    /\ user_args \in UserArgs
    /\ file \in FileStates
    /\ (user_args.input_file = NoInputFile => file = Missing)
    /\ Len(user_args.urls) + Len(file.content) <= MaxInput
    /\ pc = "start"
    /\ urls = <<>>
    /\ idx = 0
    /\ probe = <<>>
    /\ probed = <<>>
    /\ displayed = <<>>
    /\ stdout = <<>>
    /\ completion = <<>>
    /\ stderr = <<>>
    /\ exit_status = -1

\* main without its test of the list.
NoUrlsNeverChecked(u) == FALSE

\* The test `if not urls` of main.
NoUrls(u) == u = <<>>

\* main, up to the dispatch on user_args.asynchronous.
Main ==
    /\ pc = "start"
    /\ LET got == GetWebsitesUrls(user_args, file)
       IN  IF NoUrls(got.urls)
           THEN /\ stderr' = got.err \o <<ErrNoUrls>>
                /\ exit_status' = 1
                /\ pc' = "exited"
                /\ UNCHANGED <<urls, idx, probe, probed>>
           ELSE /\ stderr' = got.err
                /\ urls' = got.urls
                /\ probe' = [i \in 1..Len(got.urls) |-> "idle"]
                /\ probed' = [i \in 1..Len(got.urls) |-> NotYet]
                /\ idx' = IF user_args.asynchronous THEN 0 ELSE 1
                /\ pc' = IF user_args.asynchronous THEN "async" ELSE "sync"
                /\ UNCHANGED exit_status
    /\ UNCHANGED <<user_args, file, displayed, stdout, completion>>

\* ------------------------------------------------------------------------
\* The display sink
\* ------------------------------------------------------------------------
\* display_check_result(result, url, error): the call, as the sink sees it.
DisplayCheckResult(i, result, url, error) ==
    [pos |-> i, url |-> url, result |-> result, error |-> error]

\* The two calls of print that display_check_result makes, in order: the
\* status prefix, then the Online or the Offline text.
DisplayPrints(i, result) ==
    <<[pos |-> i, part |-> "status"],
      [pos |-> i, part |-> IF result THEN "online" ELSE "offline"]>>

\* ------------------------------------------------------------------------
\* _synchronous_check
\* ------------------------------------------------------------------------
\* A loop body whose except clause sets error and leaves result true.
SyncHandleKeepsResult(o) ==
    IF o.kind = "return" THEN [result |-> o.val, error |-> "", escaped |-> FALSE]
    ELSE [result |-> TRUE, error |-> o.msg, escaped |-> FALSE]

\* The loop body without its try statement: an exception goes on up.
SyncHandleNoTry(o) ==
    IF o.kind = "return" THEN [result |-> o.val, error |-> "", escaped |-> FALSE]
    ELSE [result |-> FALSE, error |-> "", escaped |-> TRUE]

\* The body of the try statement of the loop, given what the probe did:
\* the values of result and error after it, or the exception going on up.
SyncHandle(o) ==
    IF o.kind = "return" THEN [result |-> o.val, error |-> "", escaped |-> FALSE]
    ELSE IF o.cls \in CaughtClasses THEN [result |-> FALSE, error |-> o.msg, escaped |-> FALSE]
    ELSE [result |-> FALSE, error |-> "", escaped |-> TRUE]

\* A loop that walks the list from its end.
SyncOrderReversed(u) == [k \in 1..Len(u) |-> Len(u) + 1 - k]

\* The positions of urls in the order in which `for url in urls` visits them.
SyncOrder(u) == [k \in 1..Len(u) |-> k]

\* A loop that steps over every second url.
SyncNextIdxSkipping(k) == k + 2

\* The iteration that follows iteration k of the for loop.
SyncNextIdx(k) == k + 1

\* The loop reaches the call site_is_online(url) for the current url.
SyncCall ==
    /\ pc = "sync"
    /\ idx \in 1..Len(urls)
    /\ probe[SyncOrder(urls)[idx]] = "idle"
    /\ probe' = [probe EXCEPT ![SyncOrder(urls)[idx]] = "pending"]
    /\ UNCHANGED <<user_args, file, pc, urls, idx, probed, displayed, stdout, completion,
                 stderr, exit_status>>

\* site_is_online comes back; the rest of the iteration runs.
SyncReturn ==
    /\ pc = "sync"
    /\ idx \in 1..Len(urls)
    /\ probe[SyncOrder(urls)[idx]] = "pending"
    /\ \E o \in ProbeOutcomes :
         LET i == SyncOrder(urls)[idx]
             h == SyncHandle(o)
         IN  /\ probe' = [probe EXCEPT ![i] = "completed"]
             /\ probed' = [probed EXCEPT ![i] = o]
             /\ completion' = Append(completion, i)
             /\ IF h.escaped
                THEN /\ pc' = "crashed"
                     /\ exit_status' = 1
                     /\ UNCHANGED <<displayed, stdout, idx>>
                ELSE /\ displayed' = Append(displayed,
                                            DisplayCheckResult(i, h.result, urls[i], h.error))
                     /\ stdout' = stdout \o DisplayPrints(i, h.result)
                     /\ idx' = SyncNextIdx(idx)
                     /\ UNCHANGED <<pc, exit_status>>
    /\ UNCHANGED <<user_args, file, urls, stderr>>

\* What _synchronous_check hands to the display sink, call by call, when the
\* probe of position i does o[i].
SyncReport(u, o) ==
    [k \in 1..Len(u) |->
        LET i == SyncOrder(u)[k]
            h == SyncHandle(o[i])
        IN  DisplayCheckResult(i, h.result, u[i], h.error)]

\* The for loop is exhausted; main returns.
SyncDone ==
    /\ pc = "sync"
    /\ idx \notin 1..Len(urls)
    /\ pc' = "done"
    /\ exit_status' = 0
    /\ UNCHANGED <<user_args, file, urls, idx, probe, probed, displayed, stdout, completion,
                 stderr>>

\* ------------------------------------------------------------------------
\* _asynchronous_check
\* ------------------------------------------------------------------------
\* _check with a handler that sets result but forgets error = str(e).
AsyncHandleDropsError(o) ==
    IF o.kind = "return" THEN [result |-> o.val, error |-> "", escaped |-> FALSE]
    ELSE [result |-> FALSE, error |-> "", escaped |-> FALSE]

\* _check with a handler that catches nothing the probe raises.
AsyncHandleNoCatch(o) ==
    IF o.kind = "return" THEN [result |-> o.val, error |-> "", escaped |-> FALSE]
    ELSE [result |-> FALSE, error |-> "", escaped |-> TRUE]

\* The body of the try statement of _check, given what the awaited probe did.
AsyncHandle(o) ==
    IF o.kind = "return" THEN [result |-> o.val, error |-> "", escaped |-> FALSE]
    ELSE IF o.cls \in CaughtClasses THEN [result |-> FALSE, error |-> o.msg, escaped |-> FALSE]
    ELSE [result |-> FALSE, error |-> "", escaped |-> TRUE]

\* A runner with a pool of one worker: a task starts when all before it
\* have completed.
AsyncStartableOneWorker(p) ==
    {i \in DOMAIN p : p[i] = "idle" /\ \A j \in 1..(i - 1) : p[j] = "completed"}

\* A runner that starts the coroutine of the first url only.
AsyncStartableFirstOnly(p) == {i \in DOMAIN p : p[i] = "idle" /\ i = 1}

\* The tasks gather may start next: it wraps the coroutines in input order
\* and the event loop runs ready tasks first in, first out.
AsyncStartable(p) ==
    {i \in DOMAIN p : p[i] = "idle" /\ \A j \in 1..(i - 1) : p[j] # "idle"}

\* A wait that is over as soon as one task is (return_when=FIRST_COMPLETED).
GatherDoneFirstCompleted(p) == \E i \in DOMAIN p : p[i] = "completed"

\* When the await of gather is over, given the state of the tasks.
GatherDone(p) == \A i \in DOMAIN p : p[i] = "completed"

\* Task i runs _check up to its await of site_is_online_async(url).
AsyncStart(i) ==
    /\ pc = "async"
    /\ i \in AsyncStartable(probe)
    /\ probe' = [probe EXCEPT ![i] = "pending"]
    /\ UNCHANGED <<user_args, file, pc, urls, idx, probed, displayed, stdout, completion,
                 stderr, exit_status>>

\* _check with a loop that calls the probe again when it has raised.
AsyncAfterAwaitRetrying(o) == IF o.kind = "raise" THEN "idle" ELSE "completed"

\* The state of the probe of a task once its await has come back with o:
\* _check goes on to its end, it does not call the probe again.
AsyncAfterAwait(o) == "completed"

\* A runner that keeps the calls of the sink sorted by input position.
AsyncEmitInInputOrder(log, call) ==
    LET before == SelectSeq(log, LAMBDA d : d.pos <= call.pos)
        after == SelectSeq(log, LAMBDA d : d.pos > call.pos)
    IN  before \o <<call>> \o after

\* _check calls display_check_result itself, when it gets there.
AsyncEmit(log, call) == Append(log, call)

\* _check giving up control between the two prints of the display as well.
AwaitPointsWithDisplay == {"probe", "display"}

\* The places at which a task of _check can give up control: its one await.
AwaitPoints == {"probe"}

\* The awaited probe of task i completes; the task runs to its end (or, had
\* it given up control inside the display, goes on from there to its end).
AsyncResume(i) ==
    /\ pc = "async"
    /\ i \in DOMAIN probe
    /\ probe[i] \in {"pending", "displaying"}
    /\ IF probe[i] = "displaying"
       THEN /\ stdout' = Append(stdout, DisplayPrints(i, displayed[CHOOSE k \in DOMAIN displayed :
                                                       displayed[k].pos = i].result)[2])
            /\ probe' = [probe EXCEPT ![i] = "completed"]
            /\ UNCHANGED <<probed, completion, displayed, pc, exit_status>>
       ELSE \E o \in ProbeOutcomes :
              LET h == AsyncHandle(o)
              IN  /\ probed' = [probed EXCEPT ![i] = o]
                  /\ completion' = Append(completion, i)
                  /\ IF h.escaped
                     THEN /\ probe' = [probe EXCEPT ![i] = "completed"]
                          /\ pc' = "crashed"
                          /\ exit_status' = 1
                          /\ UNCHANGED <<displayed, stdout>>
                     ELSE /\ displayed' = AsyncEmit(displayed,
                                             DisplayCheckResult(i, h.result, urls[i], h.error))
                          /\ IF "display" \in AwaitPoints
                             THEN /\ stdout' = Append(stdout, DisplayPrints(i, h.result)[1])
                                  /\ probe' = [probe EXCEPT ![i] = "displaying"]
                             ELSE /\ stdout' = stdout \o DisplayPrints(i, h.result)
                                  /\ probe' = [probe EXCEPT ![i] = AsyncAfterAwait(o)]
                          /\ UNCHANGED <<pc, exit_status>>
    /\ UNCHANGED <<user_args, file, urls, idx, stderr>>

\* The await of asyncio.gather returns; asyncio.run and main return.
AsyncDone ==
    /\ pc = "async"
    /\ GatherDone(probe)
    /\ pc' = "done"
    /\ exit_status' = 0
    /\ UNCHANGED <<user_args, file, urls, idx, probe, probed, displayed, stdout, completion,
                 stderr>>

Next ==
    \/ Main
    \/ SyncCall
    \/ SyncReturn
    \/ SyncDone
    \/ \E i \in 1..MaxInput : AsyncStart(i)
    \/ \E i \in 1..MaxInput : AsyncResume(i)
    \/ AsyncDone

Spec == Init /\ [][Next]_vars

\* Every probe that is called comes back, every task that can run is run,
\* and main goes on when it can.
FairSpec ==
    /\ Spec
    /\ WF_vars(Main)
    /\ WF_vars(SyncCall)
    /\ WF_vars(SyncReturn)
    /\ WF_vars(SyncDone)
    /\ \A i \in 1..MaxInput : WF_vars(AsyncStart(i))
    /\ \A i \in 1..MaxInput : WF_vars(AsyncResume(i))
    /\ WF_vars(AsyncDone)

\* ------------------------------------------------------------------------
\* Properties
\* ------------------------------------------------------------------------
Positions == DOMAIN urls

\* The calls of the display sink made for position i.
ReportsOf(i) == {k \in DOMAIN displayed : displayed[k].pos = i}

Reported(i) == ReportsOf(i) # {}

\* The batch is over, whichever way it ended.
BatchOver == pc \in {"done", "crashed"}

Raised(o) == o.kind = "raise"

Succeeded(o) == o.kind = "return" /\ o.val

\* C1: in both modes, no position of the input is ever handed to the display
\* sink twice, every call of the sink is for a position of the input and
\* carries its URL, and when the batch has finished every position has been
\* handed to the sink exactly once.
C1_ExactlyOncePerPosition ==
    /\ \A k \in DOMAIN displayed :
         /\ displayed[k].pos \in Positions
         /\ displayed[k].url = urls[displayed[k].pos]
    /\ \A i \in Positions : Cardinality(ReportsOf(i)) <= 1
    /\ BatchOver =>
         /\ \A i \in Positions : Cardinality(ReportsOf(i)) = 1
         /\ Len(displayed) = Len(urls)

\* A finished concurrent batch of three URLs, two of them the same string.
C1_Witness ==
    /\ pc = "done"
    /\ user_args.asynchronous
    /\ Len(urls) = 3
    /\ \E i, j \in Positions : i # j /\ urls[i] = urls[j]
    /\ Len(displayed) = 3

\* C2: failure isolation in both modes: when the batch is over every URL has
\* been probed and reported whatever the other probes did, and each URL is
\* reported reachable exactly when its own probe returned true.
C2_FailureIsolation ==
    /\ \A k \in DOMAIN displayed :
         displayed[k].result = Succeeded(probed[displayed[k].pos])
    /\ BatchOver =>
         \A i \in Positions :
            /\ probe[i] = "completed"
            /\ probed[i] # NotYet
            /\ Reported(i)

\* A finished batch whose first probe raised and whose later probe, having
\* succeeded, is reported reachable.
C2_Witness ==
    /\ pc = "done"
    /\ Len(urls) >= 2
    /\ Raised(probed[1])
    /\ \E k \in DOMAIN displayed :
         /\ displayed[k].pos > 1
         /\ displayed[k].result
         /\ Succeeded(probed[displayed[k].pos])

\* C3: no exception raised by a probe leaves the batch runner, in either
\* mode: the runner never crashes, and every probe that raised has been
\* reported with reachable = false as soon as it has completed.
C3_NoFaultEscapes ==
    /\ pc # "crashed"
    /\ \A i \in Positions :
         (probe[i] = "completed" /\ Raised(probed[i])) =>
            \E k \in ReportsOf(i) : displayed[k].result = FALSE

\* A concurrent batch that finished although two of its probes raised.
C3_Witness ==
    /\ pc = "done"
    /\ user_args.asynchronous
    /\ \E i, j \in Positions : i # j /\ Raised(probed[i]) /\ Raised(probed[j])

\* C4: every outcome handed to the display sink with reachable = false
\* carries a non-empty error detail.
C4_UnreachableHasDetail ==
    \A k \in DOMAIN displayed : ~displayed[k].result => displayed[k].error # ""
\* C5: in sequential mode the URLs handed to the display sink are the input
\* sequence in input order: the k-th call is for position k, and when the
\* batch has finished the displayed URLs are exactly the input list.
C5_SequentialInputOrder ==
    ~user_args.asynchronous =>
        /\ \A k \in DOMAIN displayed :
             displayed[k].pos = k /\ displayed[k].url = urls[k]
        /\ pc = "done" => [k \in DOMAIN displayed |-> displayed[k].url] = urls

\* A finished sequential batch of three URLs, not all the same, in which a
\* probe that raised is followed by one that succeeded.
C5_Witness ==
    /\ pc = "done"
    /\ ~user_args.asynchronous
    /\ Len(urls) = 3
    /\ urls[2] # urls[1]
    /\ Raised(probed[1])
    /\ Succeeded(probed[2])

\* C6: in concurrent mode the batch is finished only when every probe has
\* completed and been reported: no first failure or success ends it early.
C6_GatherWaitsForAll ==
    (user_args.asynchronous /\ pc = "done") =>
        \A i \in Positions : probe[i] = "completed" /\ Reported(i)

\* A finished concurrent batch of three URLs whose first completion was a
\* failure and whose second was a success.
C6_Witness ==
    /\ pc = "done"
    /\ user_args.asynchronous
    /\ Len(displayed) = 3
    /\ ~displayed[1].result
    /\ displayed[2].result

Triple(d) == <<d.url, d.result, d.error>>

\* The multiset of the (url, reachable, errorDetail) triples of a sequence
\* of calls of the sink.
TripleBag(calls) ==
    LET triples == {Triple(calls[k]) : k \in DOMAIN calls}
    IN  [t \in triples |-> Cardinality({k \in DOMAIN calls : Triple(calls[k]) = t})]

\* C7: for the same input and the same probe result per position, the
\* multiset of triples reported by concurrent mode is the one sequential
\* mode reports, whatever the completion order; the sequential runner
\* itself reports them call for call.
C7_SameMultisetAsSequential ==
    pc = "done" =>
        IF user_args.asynchronous
        THEN TripleBag(displayed) = TripleBag(SyncReport(urls, probed))
        ELSE displayed = SyncReport(urls, probed)

\* A finished concurrent batch of three URLs reported out of input order,
\* one of them with a captured error message.
C7_Witness ==
    /\ pc = "done"
    /\ user_args.asynchronous
    /\ Len(displayed) = 3
    /\ displayed[1].pos = 3
    /\ \E k \in DOMAIN displayed : displayed[k].error = "timed out"

\* C9: under fair scheduling and probes that all come back, main always
\* ends, and a batch that was started ends finished with every one of its
\* URLs reported, in both modes and whatever the completion order.
C9_EventuallyAllReported ==
    /\ <>(pc \in {"exited", "done"})
    /\ (pc \in {"sync", "async"}) ~>
          (pc = "done" /\ \A i \in Positions : probe[i] = "completed" /\ Reported(i))

\* A finished concurrent batch of three URLs whose last URL was reported
\* first and whose first URL was reported last.
C9_Witness ==
    /\ pc = "done"
    /\ user_args.asynchronous
    /\ Len(displayed) = 3
    /\ displayed[1].pos = 3
    /\ displayed[3].pos = 1
    /\ Raised(probed[2])

\* Nothing on the command line and nothing in the input file.
NothingSupplied ==
    /\ user_args.urls = <<>>
    /\ \/ user_args.input_file = NoInputFile
       \/ ~file.exists
       \/ file.content = <<>>

\* C8: when direct arguments and input file together give no URL, main ends
\* with exit status 1, its last message on standard error being the error,
\* and no runner and no probe is started; and a runner never holds an empty
\* list.
C8_EmptyListExits ==
    /\ (pc # "start" /\ NothingSupplied) =>
          /\ pc = "exited"
          /\ exit_status = 1
          /\ stderr # <<>>
          /\ stderr[Len(stderr)] = ErrNoUrls
          /\ urls = <<>>
          /\ probe = <<>>
          /\ displayed = <<>>
    /\ pc \in {"sync", "async", "done", "crashed"} => urls # <<>>
    /\ pc = "exited" => NothingSupplied

\* main has exited on an input file that exists and is empty.
C8_Witness ==
    /\ pc = "exited"
    /\ user_args.input_file # NoInputFile
    /\ file.exists
    /\ exit_status = 1

\* The positions at which a line of the file ends.
LineEnds(c) == {k \in 1..Len(c) : c[k] = NL \/ k = Len(c)}

\* u is line without the whitespace at its two ends.
IsStripOf(u, line) ==
    \E a, b \in 0..Len(line) :
        /\ a + Len(u) + b = Len(line)
        /\ u = SubSeq(line, a + 1, a + Len(u))
        /\ \A k \in 1..a : line[k] \in Whitespace
        /\ \A k \in (Len(line) - b + 1)..Len(line) : line[k] \in Whitespace
        /\ u # <<>> => (u[1] \notin Whitespace /\ u[Len(u)] \notin Whitespace)

\* C10: the list given to the batch runner is the direct URLs in command
\* line order followed by one URL per line of the input file, in file order
\* and stripped of surrounding whitespace; a missing or empty file, or no
\* input file, adds nothing.
C10_DirectThenFileUrls ==
    pc \in {"sync", "async", "done", "crashed"} =>
        LET n == Len(user_args.urls)
            c == IF user_args.input_file # NoInputFile /\ file.exists
                 THEN file.content ELSE <<>>
            ends == LineEnds(c)
        IN  /\ Len(urls) = n + Cardinality(ends)
            /\ SubSeq(urls, 1, n) = user_args.urls
            /\ \A e \in ends :
                 LET j == Cardinality({x \in ends : x <= e})
                     before == {x \in ends : x < e}
                     start == IF before = {} THEN 1
                              ELSE 1 + CHOOSE x \in before : \A y \in before : y <= x
                 IN  IsStripOf(urls[n + j], SubSeq(c, start, e))

\* A runner started on one direct URL followed by the two lines of a file.
C10_Witness ==
    /\ pc \in {"sync", "async"}
    /\ Len(user_args.urls) = 1
    /\ Len(urls) = 3
    /\ urls[1] # urls[3]
\* The probes that have been called and have not come back.
InFlight == {i \in DOMAIN probe : probe[i] = "pending"}

\* C11: in sequential mode at most one probe is in flight, and the probe of
\* a position has not started unless the probe of every earlier position
\* has completed and its outcome has been handed to the display sink.
C11_SequentialOneAtATime ==
    ~user_args.asynchronous =>
        /\ Cardinality(InFlight) <= 1
        /\ \A i \in Positions :
             probe[i] # "idle" =>
                \A j \in 1..(i - 1) : probe[j] = "completed" /\ Reported(j)

\* The sequential runner waiting for its third probe, the first having
\* raised and the second having succeeded, both already displayed.
C11_Witness ==
    /\ pc = "sync"
    /\ Len(urls) = 3
    /\ probe[3] = "pending"
    /\ Raised(probed[1])
    /\ Succeeded(probed[2])
    /\ Len(displayed) = 2
\* The positions of the calls of the display sink, in the order of the calls.
DisplayedOrder == [k \in DOMAIN displayed |-> displayed[k].pos]

\* C12: in concurrent mode the outcome of a URL is handed to the display
\* sink in the step in which its own probe completes, so that the order of
\* reporting is the order of completion; and any pending probe may be the
\* next to complete and be reported, whatever the others do, so that every
\* order of the input is the reporting order of some execution.
C12_ReportedInCompletionOrder ==
    user_args.asynchronous =>
        /\ DisplayedOrder = completion
        /\ \A i \in Positions :
             (pc = "async" /\ probe[i] = "pending") => ENABLED AsyncResume(i)

\* A finished concurrent batch of three URLs reported in the reverse of
\* the input order.
C12_Witness ==
    /\ pc = "done"
    /\ user_args.asynchronous
    /\ DisplayedOrder = <<3, 2, 1>>

\* The other orders of three URLs, each reached by some execution.
C12_Reach123 == pc = "done" /\ user_args.asynchronous /\ DisplayedOrder = <<1, 2, 3>>
C12_Reach132 == pc = "done" /\ user_args.asynchronous /\ DisplayedOrder = <<1, 3, 2>>
C12_Reach213 == pc = "done" /\ user_args.asynchronous /\ DisplayedOrder = <<2, 1, 3>>
C12_Reach231 == pc = "done" /\ user_args.asynchronous /\ DisplayedOrder = <<2, 3, 1>>
C12_Reach312 == pc = "done" /\ user_args.asynchronous /\ DisplayedOrder = <<3, 1, 2>>

\* C13: in concurrent mode the start of a probe waits for no completion:
\* the first task not yet started can start whatever the state of the
\* probes before it, so that all probes of a batch can be pending together.
C13_StartWaitsForNoCompletion ==
    (user_args.asynchronous /\ pc = "async") =>
        \A i \in Positions :
            (probe[i] = "idle" /\ \A j \in 1..(i - 1) : probe[j] # "idle")
                => ENABLED AsyncStart(i)

\* A concurrent batch of three URLs with all three probes pending and
\* nothing completed or displayed.
C13_Witness ==
    /\ pc = "async"
    /\ Len(urls) = 3
    /\ \A i \in Positions : probe[i] = "pending"
    /\ displayed = <<>>

\* C14: in both modes the probe of a position only goes from idle to pending
\* and from pending to completed; once completed it stays completed with
\* the outcome it had, and when the batch is over every position has
\* completed: one attempt each, none retried.
C14_OneAttemptPerPosition ==
    /\ [](BatchOver => \A i \in Positions : probe[i] = "completed")
    /\ [][\A i \in DOMAIN probe :
            /\ i \in DOMAIN probe'
            /\ probe'[i] # probe[i] =>
                 <<probe[i], probe'[i]>> \in {<<"idle", "pending">>, <<"pending", "completed">>}
            /\ probe[i] = "completed" => probed'[i] = probed[i]
            /\ probe[i] = "idle" => probed[i] = NotYet]_vars

\* A finished concurrent batch in which two probes raised and each was
\* reported once.
C14_Witness ==
    /\ pc = "done"
    /\ user_args.asynchronous
    /\ Len(urls) = 3
    /\ Raised(probed[1])
    /\ Raised(probed[3])
    /\ Len(displayed) = 3
    /\ displayed[1].pos = 3

\* C15: every URL that main passes to the batch runner, and so to the probe,
\* is a non-empty string.
C15_NoEmptyUrl ==
    \A i \in Positions : urls[i] # <<>>

\* C16: in concurrent mode a task gives up control only at its awaited
\* probe: standard output is made of whole displays, the status prefix of
\* a URL directly followed by the Online or Offline text of the same URL,
\* one display per completed probe.
C16_DisplaysNotInterleaved ==
    user_args.asynchronous =>
        /\ Len(stdout) = 2 * Len(displayed)
        /\ Len(displayed) = Cardinality({i \in DOMAIN probe : probe[i] = "completed"})
        /\ \A k \in DOMAIN displayed :
             /\ stdout[2 * k - 1] = [pos |-> displayed[k].pos, part |-> "status"]
             /\ stdout[2 * k].pos = displayed[k].pos
             /\ stdout[2 * k].part = IF displayed[k].result THEN "online" ELSE "offline"

\* A concurrent batch with one display written out while two other probes
\* are still pending.
C16_Witness ==
    /\ pc = "async"
    /\ Len(urls) = 3
    /\ Len(stdout) = 2
    /\ stdout[1].pos = 2
    /\ probe[1] = "pending"
    /\ probe[3] = "pending"

\* C17: every outcome handed to the display sink with reachable = true has
\* an empty error detail, in both modes.
C17_ReachableHasNoDetail ==
    \A k \in DOMAIN displayed : displayed[k].result => displayed[k].error = ""

\* A sequential batch that displayed a captured error and then a success.
C17_Witness ==
    /\ ~user_args.asynchronous
    /\ Len(displayed) >= 2
    /\ displayed[1].error = "timed out"
    /\ displayed[2].result
    /\ displayed[2].error = ""
====
